---- MODULE Spec2Model ----
(***************************************************************************)
(* Profile-picture upload and serve handlers of the Nuxt template          *)
(* (server/api/users/upload.post.ts and server/api/users/[id]/profile.get) *)
(* over the two shared resources they touch: the user table (image field)  *)
(* and the local filesystem under the storage root.                        *)
(* The users list handler (server/api/users/index.get.ts) and the          *)
(* dashboard's getImageLink read the same table.                           *)
(*                                                                         *)
(* Paths are sequences of segments, path.join is concatenation.  A handler *)
(* is cut into steps at the points where it gives up control and where     *)
(* another request, or the I/O thread pool, can change a shared resource.  *)
(***************************************************************************)
EXTENDS Naturals, Sequences, FiniteSets, TLC

\* ------------------------------------------------------------------ bounds
MaxUploads == 2

\* ------------------------------------------------------------- value sets
Users == {"u1", "u2"}
NoSession == "none"
Sessions == Users \cup {NoSession}
NoId == ""
RouteIds == Users \cup {"nobody", NoId}
ServeSessions == {NoSession, "u1"}
UUIDs == {"a", "b"}
Null == << >>
NoData == <<0>>
EnvUnset == << >>
EnvValues == {EnvUnset, <<"/srv", "uploads">>}
Uploads == 1 .. MaxUploads
NoUpload == 0

Field(n, d) == [name |-> n, data |-> d]
NoField == Field("", NoData)
NoForm == [present |-> FALSE, fields |-> << >>]
Form(fs) == [present |-> TRUE, fields |-> fs]
Forms ==
    {NoForm, Form(<<Field("userId", <<2>>)>>), Form(<<Field("file", NoData)>>),
     Form(<<Field("file", << >>)>>), Form(<<Field("file", <<1>>)>>),
     Form(<<Field("userId", <<2>>), Field("file", <<1, 2>>)>>)}

VARIABLES env, image, dirs, files, upload, serve,
          recorder, solo, settled, pred, quiet,
          listing, links

ghost == <<recorder, solo, settled, pred, quiet>>
client == <<listing, links>>
vars == <<env, image, dirs, files, upload, serve,
          recorder, solo, settled, pred, quiet,
          listing, links>>

\* ------------------------------------------------------------ path helpers
Join(a, b) == a \o b

StorageRoot == IF env = EnvUnset THEN <<"public", "images">> ELSE env

Prefixes(p) == {SubSeq(p, 1, k) : k \in 1 .. Len(p)}

ExistsSync(p) == p \in DOMAIN files \/ p \in dirs

MkdirRecursive(p) == dirs \cup Prefixes(p)

\* --------------------------------------------------------- upload handler
\* form.find((i) => i.name === 'file'): the first field named file
FindFile(fields) ==
    LET idx == {i \in DOMAIN fields : fields[i].name = "file"}
    IN  IF idx = {} THEN NoField
        ELSE fields[CHOOSE i \in idx : \A j \in idx : i <= j]

\* the file checks of lines 68-78; 0 means "go on"
FormGuard(form) ==
    IF ~form.present THEN 400
    ELSE IF FindFile(form.fields) = NoField \/ FindFile(form.fields).data = NoData
         THEN 400
    ELSE 0

\* UploadGuard without the session check of lines 64-66
UploadGuardNoSessionCheck(session, form) == FormGuard(form)

\* the checks before the handler touches the disk; 0 means "go on"
UploadGuard(session, form) ==
    IF session = NoSession THEN 401 ELSE FormGuard(form)

\* the text of a form field as a user id
UserOfBytes(d) == IF d = <<1>> THEN "u1" ELSE "u2"

\* Owner taken from a userId field of the form when there is one
OwnerFromForm(session, form) ==
    LET idx == {i \in DOMAIN form.fields : form.fields[i].name = "userId"}
    IN  IF idx = {} THEN session
        ELSE UserOfBytes(form.fields[CHOOSE i \in idx : TRUE].data)

\* session.user.id: the identity used for the directory and the record
Owner(session, form) == session

UploadDir(owner) == Join(StorageRoot, <<"users", owner, "images">>)

\* RelativePath persisting the path of the file on disk, storage root included
RelativePathWithRoot(owner, uuid) == Join(UploadDir(owner), <<uuid>>)

RelativePath(owner, uuid) == <<"users", owner, "images", uuid>>

FilePath(owner, uuid) == Join(UploadDir(owner), <<uuid>>)

IdleUpload ==
    [pc |-> "idle", session |-> NoSession, form |-> NoForm, uuid |-> "",
     status |-> 0, write |-> "none"]

InFlight(p) == upload[p].pc = "update"

OwnerOf(p) == Owner(upload[p].session, upload[p].form)

DataOf(p) == FindFile(upload[p].form.fields).data

\* bookkeeping of the order of requests, read only by the properties:
\* an upload request of user u arrives
Arrive(p, u, accepted) ==
    LET others == {q \in Uploads \ {p} : InFlight(q) /\ OwnerOf(q) = u}
    IN  /\ solo' = [q \in Uploads |->
                      IF q = p THEN accepted /\ others = {}
                      ELSE IF q \in others THEN FALSE ELSE solo[q]]
        /\ pred' = [pred EXCEPT ![p] = IF accepted /\ u \in Users
                                       THEN settled[u] ELSE NoUpload]
        /\ settled' = [v \in Users |-> IF v = u THEN NoUpload ELSE settled[v]]
        /\ quiet' = (quiet /\ serve.id # u)

\* lines 59-101: session, form and file checks, directory, name, collision
\* check and the start of fs.writeFile, none of which waits on a shared
\* resource; mkdirOk is whether the filesystem lets mkdirSync succeed.
\* Requests are numbered in the order in which they arrive
UploadStart(p, session, form, uuid, mkdirOk) ==
    /\ upload[p].pc = "idle"
    /\ \A q \in Uploads : q < p => upload[q].pc # "idle"
    /\ LET guard == UploadGuard(session, form)
           owner == Owner(session, form)
           dir == UploadDir(owner)
           done(st) == [IdleUpload EXCEPT !.pc = "done", !.session = session,
                                          !.status = st]
       IN  IF guard # 0
           THEN /\ upload' = [upload EXCEPT ![p] = done(guard)]
                /\ UNCHANGED <<dirs>>
                /\ Arrive(p, owner, FALSE)
           ELSE IF ~ExistsSync(dir) /\ ~mkdirOk
           THEN /\ upload' = [upload EXCEPT ![p] = done(500)]
                /\ UNCHANGED <<dirs>>
                /\ Arrive(p, owner, FALSE)
           ELSE /\ dirs' = IF ExistsSync(dir) THEN dirs ELSE MkdirRecursive(dir)
                /\ IF ExistsSync(FilePath(owner, uuid))
                   THEN /\ upload' = [upload EXCEPT ![p] = done(400)]
                        /\ Arrive(p, owner, FALSE)
                   ELSE /\ upload' = [upload EXCEPT ![p] =
                              [IdleUpload EXCEPT !.pc = "update", !.session = session,
                                                 !.form = form, !.uuid = uuid,
                                                 !.write = "pending"]]
                        /\ Arrive(p, owner, TRUE)
    /\ UNCHANGED <<env, image, files, serve, recorder>>
    /\ UNCHANGED client

\* fs.writeFile in the I/O pool: open(path, 'w') creates or truncates
WriteOpen(p) ==
    /\ upload[p].write = "pending"
    /\ files' = [q \in DOMAIN files \cup {FilePath(OwnerOf(p), upload[p].uuid)} |->
                    IF q = FilePath(OwnerOf(p), upload[p].uuid) THEN << >>
                    ELSE files[q]]
    /\ upload' = [upload EXCEPT ![p].write = "open"]
    /\ UNCHANGED <<env, image, dirs, serve>>
    /\ UNCHANGED ghost
    /\ UNCHANGED client

\* fs.writeFile in the I/O pool: the buffer is written and the file closed;
\* the callback of line 99 gets no error
WriteData(p) ==
    /\ upload[p].write = "open"
    /\ files' = [files EXCEPT ![FilePath(OwnerOf(p), upload[p].uuid)] = DataOf(p)]
    /\ upload' = [upload EXCEPT ![p].write = "done"]
    /\ UNCHANGED <<env, image, dirs, serve>>
    /\ UNCHANGED ghost
    /\ UNCHANGED client

\* fs.writeFile fails: the callback of lines 99-101 throws inside the
\* callback, where no caller of the handler can catch it
WriteFail(p) ==
    /\ upload[p].write \in {"pending", "open"}
    /\ upload' = [upload EXCEPT ![p].write = "failed"]
    /\ UNCHANGED <<env, image, dirs, files, serve>>
    /\ UNCHANGED ghost
    /\ UNCHANGED client

\* lines 104-119: prisma.user.update commits, then the 201 response.  The
\* await of line 99 is on the undefined that the callback form of
\* fs.writeFile returns, so this step does not wait for the write
UploadUpdate(p) ==
    /\ upload[p].pc = "update"
    /\ image' = [image EXCEPT ![OwnerOf(p)] = RelativePath(OwnerOf(p), upload[p].uuid)]
    /\ upload' = [upload EXCEPT ![p].pc = "done", ![p].status = 201]
    /\ recorder' = [recorder EXCEPT ![OwnerOf(p)] = p]
    /\ settled' = [settled EXCEPT ![OwnerOf(p)] = IF solo[p] THEN p ELSE NoUpload]
    /\ UNCHANGED <<env, dirs, files, serve, solo, pred, quiet>>
    /\ UNCHANGED client

\* ---------------------------------------------------------- serve handler
\* ServeGuard without the session check of lines 9-11
ServeGuardNoSessionCheck(session, id) == IF id = NoId THEN 400 ELSE 0

\* ServeGuard with the route parameter checked before the session
ServeGuardIdFirst(session, id) ==
    IF id = NoId THEN 400
    ELSE IF session = NoSession THEN 401
    ELSE 0

\* lines 5-17: the session check, then the route parameter; 0 means "go on"
ServeGuard(session, id) ==
    IF session = NoSession THEN 401
    ELSE IF id = NoId THEN 400
    ELSE 0

\* prisma.user.findUnique(...)?.image: null when there is no such user
FindImage(id) == IF id \in Users THEN image[id] ELSE Null

\* ServePath with an empty fallback: the storage root itself
ServePathEmptyFallback(imagePath) == Join(StorageRoot, imagePath)

\* path.join(root, imagePath || 'null')
ServePath(imagePath) ==
    Join(StorageRoot, IF imagePath = Null THEN <<"null">> ELSE imagePath)

\* what lines 19-51 answer when nothing changes while they run
ServeAnswer(id) ==
    LET filePath == ServePath(FindImage(id))
    IN  IF ~ExistsSync(filePath) THEN [status |-> 404, body |-> << >>]
        ELSE IF filePath \in DOMAIN files
             THEN [status |-> 200, body |-> files[filePath]]
        ELSE [status |-> 500, body |-> << >>]

IdleServe ==
    [pc |-> "idle", session |-> NoSession, id |-> NoId, imagePath |-> Null,
     status |-> 0, body |-> << >>]

\* a request arrives; lines 5-17
ServeStart(session, id) ==
    /\ serve.pc = "idle"
    /\ LET req == [IdleServe EXCEPT !.session = session, !.id = id]
           guard == ServeGuard(session, id)
       IN  serve' = IF guard # 0
                    THEN [req EXCEPT !.pc = "done", !.status = guard]
                    ELSE [req EXCEPT !.pc = "lookup"]
    /\ quiet' = (id \in Users /\ \A p \in Uploads : ~(InFlight(p) /\ OwnerOf(p) = id))
    /\ UNCHANGED <<env, image, dirs, files, upload, recorder, solo, settled, pred>>
    /\ UNCHANGED client

\* lines 19-28: the record is read
ServeLookup ==
    /\ serve.pc = "lookup"
    /\ serve' = [serve EXCEPT !.pc = "exists", !.imagePath = FindImage(serve.id)]
    /\ UNCHANGED <<env, image, dirs, files, upload>>
    /\ UNCHANGED ghost
    /\ UNCHANGED client

\* lines 30-51: existsSync, createReadStream, header, sendStream
ServeExists ==
    /\ serve.pc = "exists"
    /\ serve' = IF ~ExistsSync(ServePath(serve.imagePath))
                THEN [serve EXCEPT !.pc = "done", !.status = 404]
                ELSE [serve EXCEPT !.pc = "stream", !.status = 200]
    /\ UNCHANGED <<env, image, dirs, files, upload>>
    /\ UNCHANGED ghost
    /\ UNCHANGED client

\* the stream opened in line 36 reads the file and is piped to the client
ServeStream ==
    /\ serve.pc = "stream"
    /\ serve' = IF ServePath(serve.imagePath) \in DOMAIN files
                THEN [serve EXCEPT !.pc = "done",
                                   !.body = files[ServePath(serve.imagePath)]]
                ELSE [serve EXCEPT !.pc = "done", !.status = 500]
    /\ UNCHANGED <<env, image, dirs, files, upload>>
    /\ UNCHANGED ghost
    /\ UNCHANGED client

\* the response is out; the next serve request can be looked at
ServeNext ==
    /\ serve.pc = "done"
    /\ serve' = IdleServe
    /\ quiet' = FALSE
    /\ UNCHANGED <<env, image, dirs, files, upload, recorder, solo, settled, pred>>
    /\ UNCHANGED client

\* ------------------------------------------------------- users list handler
\* the order in which findMany yields the rows of the user table
UserRows == <<"u1", "u2">>

\* a row as lines 4-12 select it (email, name and emailVerified are copied
\* through unchanged by the spread of line 16 and are left out)
Row(u) == [id |-> u, image |-> image[u]]

\* Redact with the test of line 17 turned round
RedactInverted(user) == [user EXCEPT !.image = (user.image = Null)]

\* lines 14-19: { ...user, image: user.image != null }
Redact(user) == [user EXCEPT !.image = (user.image # Null)]

NoListing == << >>
Undefined == << >>
NoLinks == <<0>>

\* GET /api/users, lines 3-22, and the dashboard's useFetch that keeps the
\* response
ListUsers ==
    /\ listing' = [i \in DOMAIN UserRows |-> Redact(Row(UserRows[i]))]
    /\ UNCHANGED <<env, image, dirs, files, upload, serve, links>>
    /\ UNCHANGED ghost

\* ------------------------------------------------------------- dashboard
\* 'api/users/' + user.id + '/profile' when user.image, else undefined
GetImageLink(user) ==
    IF user.image THEN <<"api", "users", user.id, "profile">> ELSE Undefined

\* the v-for over the fetched users gives each avatar its src
Render ==
    /\ listing # NoListing
    /\ links' = [i \in DOMAIN listing |-> GetImageLink(listing[i])]
    /\ UNCHANGED <<env, image, dirs, files, upload, serve, listing>>
    /\ UNCHANGED ghost

\* ------------------------------------------------------------ the system
Init ==
    /\ env \in EnvValues
    /\ image = [u \in Users |-> Null]
    /\ dirs = {}
    /\ files = << >>
    /\ upload = [p \in Uploads |-> IdleUpload]
    /\ serve = IdleServe
    /\ recorder = [u \in Users |-> NoUpload]
    /\ solo = [p \in Uploads |-> FALSE]
    /\ settled = [u \in Users |-> NoUpload]
    /\ pred = [p \in Uploads |-> NoUpload]
    /\ quiet = FALSE
    /\ listing = NoListing
    /\ links = NoLinks

UploadNext ==
    \/ \E p \in Uploads, session \in Sessions, form \in Forms, uuid \in UUIDs,
          mkdirOk \in BOOLEAN : UploadStart(p, session, form, uuid, mkdirOk)
    \/ \E p \in Uploads : WriteOpen(p)
    \/ \E p \in Uploads : WriteData(p)
    \/ \E p \in Uploads : WriteFail(p)
    \/ \E p \in Uploads : UploadUpdate(p)

ServeStep ==
    \/ \E session \in ServeSessions, id \in RouteIds : ServeStart(session, id)
    \/ ServeLookup
    \/ ServeExists
    \/ ServeStream
    \/ ServeNext

Next == UploadNext \/ ServeStep

\* upload and serve requests together
Spec == Init /\ [][Next]_vars

\* the upload requests alone (a serve request writes nothing)
SpecUpload == Init /\ [][UploadNext]_vars

ListStep == ListUsers \/ Render

\* uploads, and a dashboard that fetches the users list and renders it
SpecList == Init /\ [][UploadNext \/ ListStep]_vars

\* ------------------------------------------------------------ properties
Under(p, dir) == Len(p) >= Len(dir) /\ SubSeq(p, 1, Len(dir)) = dir

Authenticated == serve.session # NoSession

\* the serve request that is answered started after every upload request of
\* its user had been answered, and none has arrived since
Undisturbed == serve.pc = "done" /\ quiet /\ serve.id \in Users

BlobOf(p) == FilePath(OwnerOf(p), upload[p].uuid)

\* C1: after an authenticated upload of a non-empty file got its 201, a serve
\* request for that user (no other upload of that user in between) is
\* answered 200 with exactly the uploaded bytes.
C1_ServeReturnsUploadedBytes ==
    (/\ Undisturbed
     /\ Authenticated
     /\ settled[serve.id] # NoUpload
     /\ DataOf(settled[serve.id]) # << >>)
    => /\ serve.status = 200
       /\ serve.body = DataOf(settled[serve.id])

\* C2: whenever a user's image field holds a path an upload recorded, the
\* file at that path under the storage root exists and holds the whole content
\* of that upload (no two uploads having drawn the same name).
C2_RecordedPathIsWritten ==
    \A u \in Users :
        (/\ image[u] # Null
         /\ \A p, q \in Uploads :
               (p # q /\ upload[p].pc # "idle" /\ upload[q].pc # "idle")
               => upload[p].uuid # upload[q].uuid \/ upload[p].uuid = "") =>
            /\ Join(StorageRoot, image[u]) \in DOMAIN files
            /\ files[Join(StorageRoot, image[u])] = DataOf(recorder[u])

\* C3: an upload request without a session is answered 401 and changes
\* nothing: no directory, no file, no pending write, no image field, whatever
\* the form holds.
C3_UnauthenticatedUploadChangesNothing ==
    [][\A p \in Uploads :
          (upload[p].pc = "idle" /\ upload'[p].pc # "idle"
           /\ upload'[p].session = NoSession)
          => /\ upload'[p].pc = "done"
             /\ upload'[p].status = 401
             /\ upload'[p].write = "none"
             /\ UNCHANGED <<env, image, dirs, files>>
             /\ \A q \in Uploads \ {p} : upload'[q] = upload[q]]_vars

\* an unauthenticated upload was answered while blobs and a record existed
C3_Witness ==
    \E p \in Uploads :
        /\ upload[p].pc = "done"
        /\ upload[p].session = NoSession
        /\ upload[p].status = 401
        /\ DOMAIN files # {}
        /\ \E u \in Users : image[u] # Null

C7_SecondUploadWins ==
    (/\ Undisturbed
     /\ Authenticated
     /\ settled[serve.id] # NoUpload
     /\ pred[settled[serve.id]] # NoUpload)
    => LET second == settled[serve.id]
           first == pred[second]
       IN  /\ serve.status = 200
           /\ serve.body = DataOf(second)
           /\ BlobOf(first) \in DOMAIN files
           /\ files[BlobOf(first)] = DataOf(first)
           /\ \A u \in Users : image[u] # RelativePath(OwnerOf(first), upload[first].uuid)

\* C8: once two concurrent uploads of one user have both been answered 201,
\* the image field holds the path of the upload whose update committed last,
\* that file holds that upload's bytes, and both blobs are on disk.
C8_ConcurrentUploads ==
    \A p, q \in Uploads :
        (/\ p # q
         /\ upload[p].pc = "done" /\ upload[p].status = 201
         /\ upload[q].pc = "done" /\ upload[q].status = 201
         /\ OwnerOf(p) = OwnerOf(q)
         /\ upload[p].uuid # upload[q].uuid
         /\ ~solo[p] /\ ~solo[q])
        => LET u == OwnerOf(p)
               last == recorder[u]
           IN  /\ image[u] = RelativePath(u, upload[last].uuid)
               /\ BlobOf(last) \in DOMAIN files
               /\ files[BlobOf(last)] = DataOf(last)
               /\ BlobOf(p) \in DOMAIN files
               /\ BlobOf(q) \in DOMAIN files

\* C9: as long as no upload of the user succeeds, a repeated serve request is
\* answered as the one before it: the answer given to an undisturbed request
\* is the answer a request made now would get.
C9_RepeatedServeSameAnswer ==
    (Undisturbed /\ Authenticated)
    => /\ serve.status = ServeAnswer(serve.id).status
       /\ serve.body = ServeAnswer(serve.id).body

\* C10: a step of an upload under the session of user S changes the image
\* field of no other user, and creates or changes files and directories only
\* under <root>/users/S/images (and the directories leading to it).
C10_UploadTouchesOwnUserOnly ==
    [][\A p \in Uploads :
          upload'[p] # upload[p]
          => LET S == upload'[p].session
                 own == Join(StorageRoot, <<"users", S, "images">>)
             IN  /\ \A U \in Users \ {S} : image'[U] = image[U]
                 /\ \A f \in DOMAIN files' :
                       (f \notin DOMAIN files \/ files'[f] # files[f])
                       => Under(f, own)
                 /\ DOMAIN files \subseteq DOMAIN files'
                 /\ \A d \in dirs' \ dirs : Under(own, d)
                 /\ dirs \subseteq dirs']_vars

\* an upload of u1 whose form names u2 was recorded for u1 and left u2 alone
C10_Witness ==
    \E p \in Uploads :
        /\ upload[p].pc = "done"
        /\ upload[p].status = 201
        /\ upload[p].session = "u1"
        /\ \E i \in DOMAIN upload[p].form.fields :
              /\ upload[p].form.fields[i].name = "userId"
              /\ UserOfBytes(upload[p].form.fields[i].data) = "u2"
        /\ image["u1"] = RelativePath("u1", upload[p].uuid)
        /\ image["u2"] = Null
        /\ BlobOf(p) \in DOMAIN files
        /\ \A f \in DOMAIN files : Under(f, UploadDir("u1"))

\* C11: an upload whose blob could not be written is answered with a server
\* error, never with 201 (a failed mkdirSync is answered 500 in UploadStart).
C11_StorageErrorFailsUpload ==
    \A p \in Uploads :
        (upload[p].pc = "done" /\ upload[p].write = "failed")
        => upload[p].status = 500

\* a form that carries no file data: no form at all, no field named file,
\* or a file field whose data is absent or has no bytes
WithoutFileData(form) ==
    \/ ~form.present
    \/ FindFile(form.fields) = NoField
    \/ FindFile(form.fields).data \in {NoData, << >>}

\* C12: an authenticated upload request whose form carries no file data is
\* answered 400 and creates no directory, writes no file, starts no write and
\* changes no user record.
C12_NoFileDataShortCircuits ==
    [][\A p \in Uploads, session \in Users, form \in Forms, uuid \in UUIDs,
          mkdirOk \in BOOLEAN :
          (WithoutFileData(form) /\ UploadStart(p, session, form, uuid, mkdirOk))
          => /\ upload'[p].pc = "done"
             /\ upload'[p].status = 400
             /\ upload'[p].write = "none"
             /\ UNCHANGED <<dirs, files, image>>]_vars

\* q occurs in p as a run of consecutive segments
Contains(p, q) ==
    \E i \in 1 .. Len(p) : i + Len(q) - 1 <= Len(p) /\ SubSeq(p, i, i + Len(q) - 1) = q

\* a path that starts at the root of the filesystem
IsAbsolute(p) == Len(p) > 0 /\ p[1] = "/srv"

\* C13: every non-null image field of a user U is users/U/images/<name>; it
\* holds neither the storage root nor an absolute path, and joined onto the
\* storage root, as the serve handler joins it, it is the path at which the
\* recording upload writes its blob.
C13_ImageIsRelativePath ==
    \A U \in Users :
        image[U] # Null
        => /\ \E name \in UUIDs : image[U] = <<"users", U, "images", name>>
           /\ ~Contains(image[U], StorageRoot)
           /\ ~IsAbsolute(image[U])
           /\ recorder[U] # NoUpload
           /\ Join(StorageRoot, image[U]) = BlobOf(recorder[U])
           /\ ServePath(image[U]) = BlobOf(recorder[U])
           /\ upload[recorder[U]].write \in {"open", "done"}
              => ServePath(image[U]) \in DOMAIN files

\* under an absolute storage root, the recorded path of u1 joined onto the
\* root is the file that holds the uploaded bytes
C13_Witness ==
    /\ IsAbsolute(StorageRoot)
    /\ image["u1"] # Null
    /\ recorder["u1"] # NoUpload
    /\ upload[recorder["u1"]].write = "done"
    /\ DataOf(recorder["u1"]) # << >>
    /\ ServePath(image["u1"]) \in DOMAIN files
    /\ files[ServePath(image["u1"])] = DataOf(recorder["u1"])

\* a blob whose write has completed
Written(f) == \E p \in Uploads : upload[p].write = "done" /\ BlobOf(p) = f

\* C14: no step removes a file, changes the content of a written blob, or
\* opens for writing a file that already exists: every write creates a new
\* file.
C14_BlobsNeverOverwritten ==
    [][/\ DOMAIN files \subseteq DOMAIN files'
       /\ \A f \in DOMAIN files : Written(f) => files'[f] = files[f]
       /\ \A p \in Uploads :
             (upload[p].write = "pending" /\ upload'[p].write = "open")
             => BlobOf(p) \notin DOMAIN files]_vars

\* C15: the users list has one entry per stored user, whose image is a boolean
\* that is true exactly when the stored image path is non-null at the time of
\* the response, and the dashboard gives a user the link
\* api/users/<id>/profile exactly when that boolean is true.
C15_ListIsRedacted ==
    [][/\ listing' # NoListing
          => /\ Len(listing') = Cardinality(Users)
             /\ {listing'[i].id : i \in DOMAIN listing'} = Users
             /\ \A i \in DOMAIN listing' : listing'[i].image \in BOOLEAN
       /\ listing' # listing
          => \A i \in DOMAIN listing' :
                listing'[i].image = (image[listing'[i].id] # Null)
       /\ links' # NoLinks
          => /\ DOMAIN links' = DOMAIN listing'
             /\ links' # links
                => \A i \in DOMAIN links' :
                      /\ listing[i].image
                         => links'[i] = <<"api", "users", listing[i].id, "profile">>
                      /\ ~listing[i].image => links'[i] = Undefined]_vars

\* u1 has a picture and u2 has none: the list says true and false, and only
\* u1 got a link
C15_Witness ==
    /\ image["u1"] # Null
    /\ image["u2"] = Null
    /\ listing # NoListing
    /\ listing[1] = [id |-> "u1", image |-> TRUE]
    /\ listing[2] = [id |-> "u2", image |-> FALSE]
    /\ links # NoLinks
    /\ links[1] = <<"api", "users", "u1", "profile">>
    /\ links[2] = Undefined

====
